---- MODULE Spec2Model ----
(***************************************************************************)
(* The relational (PostgreSQL) backend of the mailserver archive:          *)
(* mailserver/mailserver_db_postgres.go.                                   *)
(*                                                                         *)
(* The table `envelopes` is a set of rows (id, data, topic, bloom) with id *)
(* as primary key.  Every SQL statement is one atomic step.  Byte strings  *)
(* are sequences of bytes and are compared as PostgreSQL compares bytea    *)
(* values (lexicographically); bit strings are sequences of 0/1.           *)
(*                                                                         *)
(* Widths are scaled: a byte has BitsPerByte bits, the key is              *)
(* timestampLength + TopicLength + HashLength bytes (4 + 4 + 32 in the     *)
(* program), the bloom filter BloomLength bytes (64 in the program), and   *)
(* uint32 is the unsigned integer of timestampLength bytes.                *)
(***************************************************************************)
EXTENDS Integers, Sequences, FiniteSets, TLC

\* ---------------------------------------------------------------- bounds
BitsPerByte == 1
timestampLength == 2
TopicLength == 1
HashLength == 1
BloomLength == 2
MaxExpiry == 3
MaxTTL == 1
MaxTopic == 1
MaxHash == 0
MaxRows == 3
MaxCount == 3
MaxInflight == 1
MaxPrune == 4
MaxLimit == 2
MaxRelease == 2

\* ------------------------------------------------------------ byte strings
ByteBase == 2 ^ BitsPerByte
Byte == 0 .. (ByteBase - 1)
Uint32Mod == ByteBase ^ timestampLength
DBKeyLength == timestampLength + TopicLength + HashLength
BloomBits == BloomLength * BitsPerByte

Min(a, b) == IF a < b THEN a ELSE b

\* the unsigned big-endian bytes of v, n bytes wide (binary.BigEndian.PutUint32)
BigEndian(v, n) == [i \in 1 .. n |-> (v \div (ByteBase ^ (n - i))) % ByteBase]

RECURSIVE BigEndianValue(_)
BigEndianValue(b) ==
  IF Len(b) = 0 THEN 0
  ELSE BigEndianValue(SubSeq(b, 1, Len(b) - 1)) * ByteBase + b[Len(b)]

\* bytea comparison: -1, 0 or 1
BytesCompare(a, b) ==
  LET n == Min(Len(a), Len(b))
      diff == {i \in 1 .. n : a[i] # b[i]}
  IN IF diff = {}
       THEN (IF Len(a) < Len(b) THEN -1 ELSE IF Len(a) > Len(b) THEN 1 ELSE 0)
       ELSE LET i == CHOOSE j \in diff : \A k \in diff : j <= k
            IN IF a[i] < b[i] THEN -1 ELSE 1

BytesLE(a, b) == BytesCompare(a, b) <= 0
BytesLT(a, b) == BytesCompare(a, b) < 0

\* ------------------------------------------------------------- key codec
uint32(v) == v % Uint32Mod

NewDBKey(timestamp, topic, h) == BigEndian(timestamp, timestampLength) \o topic \o h

KeyTime(key) == BigEndianValue(SubSeq(key, 1, timestampLength))
KeyTopic(key) == SubSeq(key, timestampLength + 1, timestampLength + TopicLength)
KeyHash(key) == SubSeq(key, timestampLength + TopicLength + 1, DBKeyLength)

emptyTopic == [i \in 1 .. TopicLength |-> 0]
zero == [i \in 1 .. HashLength |-> 0]
maxTopic == [i \in 1 .. TopicLength |-> ByteBase - 1]
maxHash == [i \in 1 .. HashLength |-> ByteBase - 1]

lowerBound(sentTime) == NewDBKey(sentTime, emptyTopic, zero)
upperBound(sentTime) == NewDBKey(sentTime, maxTopic, maxHash)

\* --------------------------------------------------------------- envelopes
Topics == {BigEndian(n, TopicLength) : n \in 0 .. MaxTopic}
Hashes == {BigEndian(n, HashLength) : n \in 0 .. MaxHash}

\* whisper's TopicToBloom: the bits a topic sets in the bloom filter
TopicToBloom(topic) ==
  LET index == BigEndianValue(topic) % BloomBits
      byteIndex == index \div BitsPerByte
      bitIndex == index % BitsPerByte
  IN [i \in 1 .. BloomLength |-> IF i = byteIndex + 1 THEN 2 ^ bitIndex ELSE 0]

\* raw: what rlp.EncodeToBytes makes of the envelope
Envelopes ==
  [expiry : 0 .. MaxExpiry, ttl : 0 .. MaxTTL, topic : Topics, hash : Hashes,
   raw : {"ok", "err", "nil"}]

Bloom(env) == TopicToBloom(env.topic)

SentTime(env) == uint32(env.expiry - env.ttl)

EnvKeyTopicLast(env) == NewDBKey(SentTime(env), env.hash, env.topic)
EnvKey(env) == NewDBKey(SentTime(env), env.topic, env.hash)

RlpEncode(env) == <<env.expiry, env.ttl>> \o env.topic \o env.hash

topicToByte(t) == [i \in 1 .. TopicLength |-> t[i]]

\* "%08b" of one byte
FormatBits(n) == [i \in 1 .. BitsPerByte |-> (n \div (2 ^ (BitsPerByte - i))) % 2]

RECURSIVE toBitString(_)
toBitString(bloom) ==
  IF Len(bloom) = 0 THEN <<>>
  ELSE toBitString(SubSeq(bloom, 1, Len(bloom) - 1)) \o FormatBits(bloom[Len(bloom)])

\* '...'::bit(512): cut or zero-padded on the right
BitCast(bits) == [i \in 1 .. BloomBits |-> IF i <= Len(bits) THEN bits[i] ELSE 0]
BitAnd(a, b) == [i \in 1 .. BloomBits |-> a[i] * b[i]]

\* ------------------------------------------------------------------ state
VARIABLES
  rows,                       \* the table envelopes
  closed,                     \* sql.DB closed
  archivedEnvelopesCounter,
  archivedErrorsCounter,
  stmts,                      \* INSERT statements prepared and not yet executed
  last,                       \* what the last completed call returned
  it,                         \* the last BuildIterator call: its query and its rows
  pg,                         \* the queryPage chain: pages so far and nextCursor
  kc                          \* two envelopes and the comparison of their keys

storeVars == <<rows, closed, archivedEnvelopesCounter, archivedErrorsCounter, stmts, last>>
pageVars == <<it, pg>>
vars == <<rows, closed, archivedEnvelopesCounter, archivedErrorsCounter, stmts, last,
          it, pg, kc>>

Keys(tbl) == {r.id : r \in tbl}

\* ------------------------------------------------------------ SQL statements
InsertRowNoTopic(env) ==
  [id |-> EnvKey(env), data |-> RlpEncode(env), topic |-> emptyTopic,
   bloom |-> BitCast(toBitString(Bloom(env)))]
InsertRow(env) ==
  [id |-> EnvKey(env), data |-> RlpEncode(env), topic |-> topicToByte(env.topic),
   bloom |-> BitCast(toBitString(Bloom(env)))]

\* INSERT ... ON CONFLICT (id) DO NOTHING
InsertOrReplace(tbl, row) == {r \in tbl : r.id # row.id} \cup {row}
InsertDuplicate(tbl, row) == tbl \cup {row}
InsertOnConflictDoNothing(tbl, row) ==
  IF row.id \in Keys(tbl) THEN tbl ELSE tbl \cup {row}

\* DELETE FROM envelopes WHERE id BETWEEN $1 AND $2
DeleteAll(tbl, kl, ku) == {}

\* DELETE FROM envelopes WHERE id BETWEEN $1 AND $2
DeleteBetween(tbl, kl, ku) ==
  {r \in tbl : ~(BytesLE(kl, r.id) /\ BytesLE(r.id, ku))}

\* -------------------------------------------------------------- operations
EncodeFailureUncounted(env) ==
  /\ last' = [op |-> "SaveEnvelope",
              err |-> IF env.raw = "err" THEN "EncodeError" ELSE "NilBytes"]
  /\ UNCHANGED <<archivedErrorsCounter, stmts>>

\* rlp.EncodeToBytes fails or yields nil: count the error and return it
EncodeFailure(env) ==
  /\ archivedErrorsCounter' = archivedErrorsCounter + 1
  /\ last' = [op |-> "SaveEnvelope",
              err |-> IF env.raw = "err" THEN "EncodeError" ELSE "NilBytes"]
  /\ UNCHANGED stmts

\* SaveEnvelope up to db.Prepare
SaveEnvelopePrepare(env) ==
  /\ archivedEnvelopesCounter + archivedErrorsCounter + Cardinality(stmts) < MaxCount
  /\ Cardinality(stmts) < MaxInflight
  /\ env \notin stmts
  /\ EnvKey(env) \in Keys(rows) \/ Cardinality(rows) + Cardinality(stmts) < MaxRows
  /\ UNCHANGED <<rows, closed, archivedEnvelopesCounter, it, pg, kc>>
  /\ IF env.raw # "ok"
       THEN EncodeFailure(env)
       ELSE IF closed
         THEN /\ last' = [op |-> "SaveEnvelope", err |-> "PrepareError"]
              /\ UNCHANGED <<archivedErrorsCounter, stmts>>
         ELSE /\ stmts' = stmts \cup {env}
              /\ UNCHANGED <<archivedErrorsCounter, last>>

\* SaveEnvelope from stmt.Exec on
SaveEnvelopeExec(env) ==
  /\ env \in stmts
  /\ stmts' = stmts \ {env}
  /\ UNCHANGED <<closed, it, pg, kc>>
  /\ IF closed
       THEN /\ archivedErrorsCounter' = archivedErrorsCounter + 1
            /\ last' = [op |-> "SaveEnvelope", err |-> "ExecError"]
            /\ UNCHANGED <<rows, archivedEnvelopesCounter>>
       ELSE /\ rows' = InsertOnConflictDoNothing(rows, InsertRow(env))
            /\ archivedEnvelopesCounter' = archivedEnvelopesCounter + 1
            /\ last' = [op |-> "SaveEnvelope", err |-> "nil",
                        affected |-> IF EnvKey(env) \in Keys(rows) THEN 0 ELSE 1]
            /\ UNCHANGED archivedErrorsCounter

GetEnvelopeNilOnMiss(key) ==
  /\ UNCHANGED <<rows, closed, archivedEnvelopesCounter, archivedErrorsCounter, stmts,
                 it, pg, kc>>
  /\ IF closed
       THEN last' = [op |-> "GetEnvelope", err |-> "PrepareError"]
       ELSE last' = [op |-> "GetEnvelope", err |-> "nil",
                     envelope |-> IF \E r \in rows : r.id = key
                                    THEN (CHOOSE r \in rows : r.id = key).data
                                    ELSE <<>>]

\* SELECT data FROM envelopes WHERE id = $1, scanned into one payload
GetEnvelope(key) ==
  /\ UNCHANGED <<rows, closed, archivedEnvelopesCounter, archivedErrorsCounter, stmts,
                 it, pg, kc>>
  /\ IF closed
       THEN last' = [op |-> "GetEnvelope", err |-> "PrepareError"]
       ELSE IF \E r \in rows : r.id = key
         THEN last' = [op |-> "GetEnvelope", err |-> "nil",
                       envelope |-> (CHOOSE r \in rows : r.id = key).data]
         ELSE last' = [op |-> "GetEnvelope", err |-> "ErrNoRows"]

PruneUpper(t) == NewDBKey(uint32(t), emptyTopic, zero)

PruneOnClosed(t) ==
  /\ UNCHANGED <<closed, archivedEnvelopesCounter, archivedErrorsCounter, stmts, it, pg,
                 kc>>
  /\ rows' = DeleteBetween(rows, NewDBKey(0, emptyTopic, zero), PruneUpper(t))
  /\ last' = [op |-> "Prune", err |-> IF closed THEN "PrepareError" ELSE "nil",
              n |-> Cardinality(rows) - Cardinality(rows')]

Prune(t) ==
  /\ UNCHANGED <<closed, archivedEnvelopesCounter, archivedErrorsCounter, stmts, it, pg,
                 kc>>
  /\ IF closed
       THEN /\ last' = [op |-> "Prune", err |-> "PrepareError", n |-> 0]
            /\ UNCHANGED rows
       ELSE LET kl == NewDBKey(0, emptyTopic, zero)
                ku == PruneUpper(t)
            IN /\ rows' = DeleteBetween(rows, kl, ku)
               /\ last' = [op |-> "Prune", err |-> "nil",
                           n |-> Cardinality(rows) - Cardinality(rows')]

Close ==
  /\ ~closed
  /\ closed' = TRUE
  /\ last' = [op |-> "Close"]
  /\ UNCHANGED <<rows, archivedEnvelopesCounter, archivedErrorsCounter, stmts, it, pg,
                 kc>>

\* ------------------------------------------------------------ BuildIterator
RangePredicateCursorIncluded(query, id) ==
  IF Len(query.cursor) > 0
    THEN BytesLE(query.start, id) /\ BytesLE(id, query.cursor)
    ELSE BytesLE(query.start, id) /\ BytesLE(id, query.end)

RangePredicateNoStart(query, id) ==
  IF Len(query.cursor) > 0
    THEN BytesLT(id, query.cursor)
    ELSE BytesLE(id, query.end)

RangePredicateCursorIgnored(query, id) ==
  BytesLE(query.start, id) /\ BytesLE(id, query.end)

\* WHERE id >= $1 AND id < $2 (a cursor) or WHERE id >= $1 AND id <= $2
RangePredicate(query, id) ==
  IF Len(query.cursor) > 0
    THEN BytesLE(query.start, id) /\ BytesLT(id, query.cursor)
    ELSE BytesLE(query.start, id) /\ BytesLE(id, query.end)

FilterPredicateReversed(query, r) ==
  IF Cardinality(query.topics) > 0
    THEN r.topic \in query.topics
    ELSE BitAnd(r.bloom, BitCast(toBitString(query.bloom))) = BitCast(toBitString(query.bloom))

FilterPredicateBloomToo(query, r) ==
  /\ Cardinality(query.topics) > 0 => r.topic \in query.topics
  /\ BitAnd(r.bloom, BitCast(toBitString(query.bloom))) = r.bloom

\* AND topic = any($3) or AND bloom & b'...'::bit(512) = bloom
FilterPredicate(query, r) ==
  IF Cardinality(query.topics) > 0
    THEN r.topic \in query.topics
    ELSE BitAnd(r.bloom, BitCast(toBitString(query.bloom))) = r.bloom

\* ORDER BY ID DESC
RECURSIVE OrderByIdDesc(_)
OrderByIdDesc(S) ==
  IF S = {} THEN <<>>
  ELSE LET m == CHOOSE r \in S : \A o \in S : BytesLE(o.id, r.id)
       IN <<m>> \o OrderByIdDesc(S \ {m})

LimitIgnored(s, n) == s

\* LIMIT $n
Limit(s, n) == SubSeq(s, 1, Min(n, Len(s)))

\* the (id, data) pairs the iterator yields
BuildIterator(tbl, query) ==
  LET selected == {r \in tbl : RangePredicate(query, r.id) /\ FilterPredicate(query, r)}
      ordered == Limit(OrderByIdDesc(selected), query.limit)
  IN [i \in 1 .. Len(ordered) |-> [id |-> ordered[i].id, data |-> ordered[i].data]]

\* ---------------------------------------------- Archive Service: queryPage
\* the bloom filter of a set of topics: the OR of the topics' filters
RECURSIVE OrBits(_, _)
OrBits(S, k) ==
  IF k < 0 THEN 0
  ELSE (IF \E n \in S : (n \div (2 ^ k)) % 2 = 1 THEN 2 ^ k ELSE 0) + OrBits(S, k - 1)

combine(topics) ==
  [i \in 1 .. BloomLength |-> OrBits({TopicToBloom(t)[i] : t \in topics}, BitsPerByte - 1)]

\* the planner: the backend's CursorQuery of a logical request
PlanQuery(q, cursor) ==
  [start |-> lowerBound(q.start), end |-> upperBound(q.end), cursor |-> cursor,
   topics |-> q.topics, bloom |-> q.bloom, limit |-> q.limit]

IdsOf(out) == [i \in 1 .. Len(out) |-> out[i].id]

\* nextCursor: the last row's key, absent when fewer than limit rows came
NextCursor(out, limit) == IF Len(out) = limit THEN out[Len(out)].id ELSE <<>>

\* one page: plan, BuildIterator, drain, release
queryPage(q, cursor, client, pages) ==
  LET query == PlanQuery(q, cursor)
  IN IF closed
       THEN /\ it' = [op |-> "BuildIterator", query |-> query, err |-> "PrepareError",
                      out |-> <<>>]
            /\ pg' = [state |-> "failed", q |-> q, client |-> client, pages |-> pages,
                      next |-> <<>>]
       ELSE LET out == BuildIterator(rows, query)
                next == NextCursor(out, q.limit)
            IN /\ it' = [op |-> "BuildIterator", query |-> query, err |-> "nil",
                         out |-> out]
               /\ pg' = [state |-> IF Len(next) > 0 THEN "open" ELSE "done", q |-> q,
                         client |-> client, pages |-> Append(pages, IdsOf(out)),
                         next |-> next]

\* the first page of a request; cursor is the continuation key the caller sent
QueryFirst(q, cursor) ==
  /\ pg.state = "idle"
  /\ queryPage(q, cursor, cursor, <<>>)
  /\ UNCHANGED <<storeVars, kc>>

\* the next page: the previous page's nextCursor is fed back in
QueryNext ==
  /\ pg.state = "open"
  /\ queryPage(pg.q, pg.next, pg.client, pg.pages)
  /\ UNCHANGED <<storeVars, kc>>

\* ------------------------------------------- BuildIterator: its resources
\* one BuildIterator call on the backend: db.Prepare, stmt.Query, and the
\* iterator over the rows. No step of it looks at query.limit, which goes to
\* the statement as the LIMIT argument; the statement is not closed.
BuildIteratorCall(query) ==
  /\ it.op = "none"
  /\ IF closed
       THEN it' = [op |-> "BuildIterator", query |-> query, err |-> "PrepareError",
                   out |-> <<>>, stmt |-> FALSE, cursor |-> FALSE, iterator |-> FALSE,
                   releases |-> 0]
       ELSE it' = [op |-> "BuildIterator", query |-> query, err |-> "nil",
                   out |-> BuildIterator(rows, query), stmt |-> TRUE, cursor |-> TRUE,
                   iterator |-> TRUE, releases |-> 0]
  /\ UNCHANGED <<storeVars, pg, kc>>

\* postgresIterator.Release: sql.Rows.Close, which is idempotent
Release ==
  /\ it.op = "BuildIterator"
  /\ it.iterator
  /\ it.releases < MaxRelease
  /\ it' = [it EXCEPT !.cursor = FALSE, !.releases = it.releases + 1]
  /\ UNCHANGED <<storeVars, pg, kc>>

\* ----------------------------------------------------------------- inputs
\* a request names topics together with their bloom filter, or a bloom filter
\* alone, or neither (no bloom: the empty byte string)
QueryBlooms == {combine(S) : S \in (SUBSET Topics) \ {{}}} \cup {<<>>}

Queries ==
  {q \in [start : 0 .. MaxExpiry, end : 0 .. MaxExpiry, topics : SUBSET Topics,
          bloom : QueryBlooms, limit : 1 .. MaxLimit] :
     /\ q.start <= q.end
     /\ q.topics # {} => q.bloom = combine(q.topics)}

Cursors == {lowerBound(t) : t \in 0 .. MaxExpiry}

PageEnvelopes == {e \in Envelopes : e.raw = "ok" /\ e.ttl = 0}

Table(S) == {InsertRow(e) : e \in S}

Tables ==
  {Table(S) : S \in {T \in SUBSET PageEnvelopes :
                       /\ Cardinality(T) <= MaxRows
                       /\ \A a, b \in T : EnvKey(a) = EnvKey(b) => a = b}}

\* the keys SaveEnvelope derives for two envelopes, compared as bytea
CompareKeys ==
  /\ kc.state = "drawn"
  /\ kc' = [state |-> "compared", a |-> kc.a, b |-> kc.b,
            ka |-> EnvKey(kc.a), kb |-> EnvKey(kc.b),
            order |-> BytesCompare(EnvKey(kc.a), EnvKey(kc.b))]
  /\ UNCHANGED <<storeVars, it, pg>>

KeyHashes == {BigEndian(n, HashLength) : n \in 0 .. MaxHash + 1}

KeyEnvelopes ==
  [expiry : 0 .. MaxExpiry, ttl : 0 .. MaxTTL, topic : Topics, hash : KeyHashes,
   raw : {"ok"}]

\* ----------------------------------------------------------- specification
Init ==
  /\ rows = {}
  /\ closed = FALSE
  /\ archivedEnvelopesCounter = 0
  /\ archivedErrorsCounter = 0
  /\ stmts = {}
  /\ last = [op |-> "none"]
  /\ it = [op |-> "none"]
  /\ pg = [state |-> "idle"]
  /\ kc = [state |-> "idle"]

Next ==
  \/ \E env \in Envelopes : SaveEnvelopePrepare(env)
  \/ \E env \in Envelopes : SaveEnvelopeExec(env)
  \/ \E key \in {EnvKey(e) : e \in Envelopes} : GetEnvelope(key)
  \/ \E t \in 0 .. MaxPrune : Prune(t)
  \/ Close

Spec == Init /\ [][Next]_vars

\* the pages of a store that is not being written to
InitPage ==
  /\ rows \in Tables
  /\ closed = FALSE
  /\ archivedEnvelopesCounter = 0
  /\ archivedErrorsCounter = 0
  /\ stmts = {}
  /\ last = [op |-> "none"]
  /\ it = [op |-> "none"]
  /\ pg = [state |-> "idle"]
  /\ kc = [state |-> "idle"]

NextPage ==
  \/ \E q \in Queries : \E cursor \in {<<>>} \cup Cursors : QueryFirst(q, cursor)
  \/ QueryNext

SpecPage == InitPage /\ [][NextPage]_vars

\* the CursorQuery values a caller can hand to the backend
IterQueries ==
  {[PlanQuery(q, cursor) EXCEPT !.limit = n] :
     q \in {r \in Queries : r.start = 0 /\ r.limit = 1},
     cursor \in {<<>>, lowerBound(MaxExpiry)},
     n \in 0 .. MaxLimit}

\* BuildIterator and Release on a backend that can be closed
NextIter ==
  \/ \E query \in IterQueries : BuildIteratorCall(query)
  \/ Release
  \/ Close

SpecIter == InitPage /\ [][NextIter]_vars

\* requests over the whole range, by bloom filter
LiveQueries ==
  {q \in Queries : q.start = 0 /\ q.end = MaxExpiry /\ q.topics = {}
                   /\ q.bloom = combine(Topics)}

\* the envelopes saved meanwhile; two of them can have the same key
LiveEnvelopes == {e \in Envelopes : e.raw = "ok" /\ (e.ttl = 0 \/ e.expiry = e.ttl)}

\* the keys looked up meanwhile
LiveKeys == {lowerBound(t) : t \in 0 .. MaxExpiry}

\* the store written to, pruned and closed while a request is paged
NextLive ==
  \/ \E env \in LiveEnvelopes : SaveEnvelopePrepare(env)
  \/ \E env \in LiveEnvelopes : SaveEnvelopeExec(env)
  \/ \E key \in LiveKeys : GetEnvelope(key)
  \/ \E t \in 0 .. MaxPrune : Prune(t)
  \/ Close
  \/ \E q \in LiveQueries : QueryFirst(q, <<>>)
  \/ QueryNext

SpecLive == Init /\ [][NextLive]_vars

\* the key codec on pairs of envelopes
InitKey ==
  /\ rows = {}
  /\ closed = FALSE
  /\ archivedEnvelopesCounter = 0
  /\ archivedErrorsCounter = 0
  /\ stmts = {}
  /\ last = [op |-> "none"]
  /\ it = [op |-> "none"]
  /\ pg = [state |-> "idle"]
  /\ kc \in [state : {"drawn"}, a : KeyEnvelopes, b : KeyEnvelopes]

NextKey == CompareKeys

SpecKey == InitKey /\ [][NextKey]_vars

\* ------------------------------------------------------------------ claims
Sign(n) == IF n < 0 THEN -1 ELSE IF n > 0 THEN 1 ELSE 0

\* (sent-time, topic, hash) of an envelope compared as a tuple: -1, 0 or 1
SentAt(env) == (env.expiry - env.ttl) % Uint32Mod

TripleCompare(a, b) ==
  IF SentAt(a) # SentAt(b) THEN Sign(SentAt(a) - SentAt(b))
  ELSE IF a.topic # b.topic THEN BytesCompare(a.topic, b.topic)
  ELSE BytesCompare(a.hash, b.hash)

\* C10: the bytea order of the keys of any two envelopes is the order of their
\* (sent-time, topic, hash) triples, sent-time being the uint32 expiry - ttl
\* written big-endian; the key decodes to the triple and distinct triples have
\* distinct keys.
C10_KeyOrder ==
  kc.state = "compared" =>
    /\ kc.order = TripleCompare(kc.a, kc.b)
    /\ (kc.ka = kc.kb) <=>
         (SentAt(kc.a) = SentAt(kc.b) /\ kc.a.topic = kc.b.topic
          /\ kc.a.hash = kc.b.hash)
    /\ Len(kc.ka) = DBKeyLength
    /\ KeyTime(kc.ka) = SentAt(kc.a)
    /\ KeyTopic(kc.ka) = kc.a.topic
    /\ KeyHash(kc.ka) = kc.a.hash

\* two envelopes sent in the same second, told apart by the hash alone, and the
\* first one's sent-time wrapped around (ttl > expiry)
C10_Witness ==
  /\ kc.state = "compared"
  /\ SentAt(kc.a) = SentAt(kc.b)
  /\ kc.a.topic = kc.b.topic
  /\ kc.order = -1
  /\ kc.a.ttl > kc.a.expiry

\* the envelope a stored payload carries (rlp decoding)
DecodeRlp(data) ==
  [expiry |-> data[1], ttl |-> data[2], topic |-> SubSeq(data, 3, 2 + TopicLength),
   hash |-> SubSeq(data, 3 + TopicLength, 2 + TopicLength + HashLength), raw |-> "ok"]

RECURSIVE Flatten(_)
Flatten(pages) ==
  IF Len(pages) = 0 THEN <<>>
  ELSE Flatten(SubSeq(pages, 1, Len(pages) - 1)) \o pages[Len(pages)]

Range(s) == {s[i] : i \in 1 .. Len(s)}

\* one query over the same range and filter with an unbounded limit
UnboundedQuery(q) ==
  BuildIterator(rows, [PlanQuery(q, <<>>) EXCEPT !.limit = Cardinality(rows)])

\* C1: with the store not written to, the pages of a chain that starts without
\* a cursor and feeds each nextCursor back in until it is absent, concatenated,
\* are exactly the rows of one unbounded query over the same range and filter:
\* no row twice, none missing, and no page holds the row of its own cursor.
C1_PaginationLaw ==
  (pg.state = "done" /\ pg.client = <<>>) =>
    LET got == Flatten(pg.pages)
    IN /\ got = IdsOf(UnboundedQuery(pg.q))
       /\ \A i, j \in 1 .. Len(got) : i # j => got[i] # got[j]
       /\ Range(got) = Range(IdsOf(UnboundedQuery(pg.q)))
       /\ \A i \in 2 .. Len(pg.pages) :
            LET prev == pg.pages[i - 1]
            IN prev[Len(prev)] \notin Range(pg.pages[i])

\* a chain of three pages of one row each and an empty last page, over a store
\* with a row that the query does not match
C1_Witness ==
  /\ pg.state = "done"
  /\ pg.client = <<>>
  /\ pg.q.limit = 1
  /\ Len(pg.pages) = 3
  /\ Len(Flatten(pg.pages)) = 2
  /\ Cardinality(rows) = 3

RowsInRange ==
  \A i \in 1 .. Len(it.out) :
    /\ pg.q.start <= SentAt(DecodeRlp(it.out[i].data))
    /\ SentAt(DecodeRlp(it.out[i].data)) <= pg.q.end

StrictlyDescending ==
  \A i \in 1 .. Len(it.out) - 1 : BytesCompare(it.out[i + 1].id, it.out[i].id) = -1

\* C4 as stated: for every query with start <= end and limit > 0 the returned
\* envelopes have sent-times in [start, end], in strictly descending key order,
\* at most limit of them.
C4_AnyQueryInRange ==
  it.op = "BuildIterator" =>
    /\ RowsInRange
    /\ StrictlyDescending
    /\ Len(it.out) <= pg.q.limit

\* C4 amended: the sent-times are in [start, end] when the query has no cursor
\* or a cursor whose sent-time is at most end (every nextCursor of the same
\* range is one); the order and the limit hold for every query.
C4_InRangeDescending ==
  it.op = "BuildIterator" =>
    /\ (Len(it.query.cursor) = 0 \/ KeyTime(it.query.cursor) <= pg.q.end) => RowsInRange
    /\ StrictlyDescending
    /\ Len(it.out) <= pg.q.limit

\* a continuation page of two rows, with a stored row below start
C4_Witness ==
  /\ it.op = "BuildIterator"
  /\ Len(it.query.cursor) > 0
  /\ KeyTime(it.query.cursor) <= pg.q.end
  /\ Len(it.out) = 2
  /\ \E r \in rows : KeyTime(r.id) < pg.q.start

Bit(n, k) == (n \div (2 ^ k)) % 2

\* (envBloom AND queryBloom) = envBloom, on the bytes; an absent byte is zero
Contains(envBloom, queryBloom) ==
  \A i \in 1 .. Len(envBloom) : \A k \in 0 .. BitsPerByte - 1 :
    Bit(envBloom[i], k) = 1 => (i <= Len(queryBloom) /\ Bit(queryBloom[i], k) = 1)

\* C5: a query without topics returns only envelopes whose bloom is contained
\* in the query's bloom, and leaves out no stored envelope of the scanned key
\* range with a contained bloom, except below the last row of a full page.
C5_BloomSoundComplete ==
  (it.op = "BuildIterator" /\ it.query.topics = {}) =>
    /\ \A i \in 1 .. Len(it.out) :
         Contains(Bloom(DecodeRlp(it.out[i].data)), it.query.bloom)
    /\ \A r \in rows :
         (/\ RangePredicate(it.query, r.id)
          /\ Contains(Bloom(DecodeRlp(r.data)), it.query.bloom)
          /\ r.id \notin Range(IdsOf(it.out)))
         => /\ Len(it.out) = it.query.limit
            /\ \A i \in 1 .. Len(it.out) : BytesCompare(r.id, it.out[i].id) = -1

\* a bloom query that returns a row and rejects another row of its range
C5_Witness ==
  /\ it.op = "BuildIterator"
  /\ it.query.topics = {}
  /\ Len(it.query.bloom) > 0
  /\ Len(it.out) >= 1
  /\ Len(it.out) < it.query.limit
  /\ \E r \in rows :
       /\ RangePredicate(it.query, r.id)
       /\ ~Contains(Bloom(DecodeRlp(r.data)), it.query.bloom)

\* the scenario of the three envelopes sent at 100, 200 and 300 (here 1, 2 and
\* 3) on one topic, asked for from 0 to 300 in pages of two with a filter that
\* matches the topic
ScenarioRows(topic) ==
  /\ Cardinality(rows) = 3
  /\ {KeyTime(r.id) : r \in rows} = {1, 2, 3}
  /\ \A r \in rows : r.topic = topic

ScenarioQuery(topic) ==
  /\ pg.client = <<>>
  /\ pg.q.start = 0
  /\ pg.q.end = 3
  /\ pg.q.limit = 2
  /\ IF pg.q.topics # {} THEN topic \in pg.q.topics
     ELSE Contains(TopicToBloom(topic), pg.q.bloom)

KeyAt(t) == (CHOOSE r \in rows : KeyTime(r.id) = t).id

\* C7: a page's nextCursor is the key of its last row when the page holds limit
\* rows and absent when it holds fewer; every page before the last is full; a
\* chain over a store that is not written to has at most one page more than
\* the store has rows, so it ends after finitely many pages.  In the scenario
\* page one is (300, 200) with the key of 200 as cursor and page two is (100)
\* with no cursor.
C7_CursorAndTermination ==
  /\ pg.state \in {"open", "done"} =>
       LET n == Len(pg.pages)
           p == pg.pages[n]
       IN /\ pg.next = (IF Len(p) = pg.q.limit THEN p[Len(p)] ELSE <<>>)
          /\ (pg.state = "done") <=> (Len(p) < pg.q.limit)
          /\ \A i \in 1 .. n - 1 : Len(pg.pages[i]) = pg.q.limit
          /\ n <= Cardinality(rows) + 1
  /\ \A topic \in Topics :
       (pg.state \in {"open", "done"} /\ ScenarioRows(topic) /\ ScenarioQuery(topic)) =>
         /\ pg.pages[1] = <<KeyAt(3), KeyAt(2)>>
         /\ Len(pg.pages) = 1 => (pg.state = "open" /\ pg.next = KeyAt(2))
         /\ Len(pg.pages) >= 2 =>
              (pg.pages[2] = <<KeyAt(1)>> /\ pg.state = "done" /\ pg.next = <<>>
               /\ Len(pg.pages) = 2)

\* the scenario after its second page
C7_Witness ==
  /\ pg.state = "done"
  /\ \E topic \in Topics : ScenarioRows(topic) /\ ScenarioQuery(topic)
  /\ Len(pg.pages) = 2

RowAt(tbl, key) == CHOOSE r \in tbl : r.id = key

\* C2: on an open backend a SaveEnvelope of a well-formed envelope returns no
\* error, whether or not its key is already stored, and leaves exactly one row
\* with that key; a save of a stored key changes no row.
C2_IdempotentSave ==
  [][\A env \in Envelopes :
       (SaveEnvelopeExec(env) /\ ~closed) =>
         /\ last'.err = "nil"
         /\ Cardinality({r \in rows' : r.id = EnvKey(env)}) = 1
         /\ EnvKey(env) \in Keys(rows) => rows' = rows]_vars

\* a save of a key that was already stored has returned without error
C2_Witness ==
  /\ last.op = "SaveEnvelope"
  /\ last.err = "nil"
  /\ last.affected = 0
  /\ Cardinality(rows) >= 1

\* C3 as stated: Prune(t) removes exactly the rows sent before t, keeps every
\* row sent at t or later whatever its topic and hash, and returns the number
\* of rows removed.
C3_PruneBefore ==
  [][\A t \in 0 .. Uint32Mod - 1 :
       (Prune(t) /\ ~closed) =>
         /\ rows' = {r \in rows : KeyTime(r.id) >= t}
         /\ last'.n = Cardinality(rows) - Cardinality(rows')]_vars

\* C6: the first save of a key stores the envelope's payload under the key
\* derived from (expiry - ttl, topic, hash), which decodes back to that triple;
\* the payload under a stored key never changes, later saves of the key
\* included; GetEnvelope of a stored key returns that payload.
C6_RoundTrip ==
  [][/\ \A env \in Envelopes :
          (SaveEnvelopeExec(env) /\ ~closed) =>
            LET key == NewDBKey(SentAt(env), env.topic, env.hash)
            IN /\ key \in Keys(rows')
               /\ key \notin Keys(rows) => RowAt(rows', key).data = RlpEncode(env)
               /\ KeyTime(key) = SentAt(env)
               /\ KeyTopic(key) = env.topic
               /\ KeyHash(key) = env.hash
     /\ \A r \in rows : r.id \in Keys(rows') => RowAt(rows', r.id).data = r.data
     /\ \A key \in Keys(rows) :
          (GetEnvelope(key) /\ ~closed) =>
            /\ last'.err = "nil"
            /\ last'.envelope = RowAt(rows, key).data]_vars

\* GetEnvelope has returned the payload of the only row after two saves
C6_Witness ==
  /\ last.op = "GetEnvelope"
  /\ last.err = "nil"
  /\ archivedEnvelopesCounter >= 2
  /\ Cardinality(rows) = 1
  /\ last.envelope = (CHOOSE r \in rows : TRUE).data

EncodeErrors == {"EncodeError", "NilBytes"}

\* C8: a SaveEnvelope whose payload fails to encode returns an error, adds one
\* to the failure counter and nothing to the archived counter, leaves the rows
\* and the statements in flight as they were, and a save that completes after
\* it on an open backend succeeds.
C8_EncodeFailure ==
  [][\A env \in Envelopes :
       /\ (env.raw # "ok" /\ SaveEnvelopePrepare(env)) =>
            /\ last'.op = "SaveEnvelope"
            /\ last'.err \in EncodeErrors
            /\ archivedErrorsCounter' = archivedErrorsCounter + 1
            /\ archivedEnvelopesCounter' = archivedEnvelopesCounter
            /\ rows' = rows
            /\ stmts' = stmts
            /\ closed' = closed
       /\ (last.op = "SaveEnvelope" /\ last.err \in EncodeErrors
           /\ SaveEnvelopeExec(env) /\ ~closed) =>
            /\ last'.err = "nil"
            /\ EnvKey(env) \in Keys(rows')
            /\ archivedEnvelopesCounter' = archivedEnvelopesCounter + 1]_vars

\* a save has failed to encode on a store that holds rows
C8_Witness ==
  /\ last.op = "SaveEnvelope"
  /\ last.err = "EncodeError"
  /\ archivedErrorsCounter = 1
  /\ Cardinality(rows) >= 1

\* the bloom column of an envelope: bit by bit, the first byte first and the
\* high bit of a byte first
BloomColumnOf(env, r) ==
  /\ Len(r.bloom) = BloomBits
  /\ \A i \in 1 .. BloomLength : \A k \in 0 .. BitsPerByte - 1 :
       r.bloom[(i - 1) * BitsPerByte + (BitsPerByte - k)] = Bit(Bloom(env)[i], k)

\* C9: every row a reader can see was written whole by one SaveEnvelope: its
\* four columns are the key, the payload, the topic and the bloom of one
\* envelope, and the topic column is the topic in the key; a payload that
\* GetEnvelope returns is the payload of such a row.
C9_NoHalfWrittenRow ==
  /\ \A r \in rows :
       /\ r.topic = KeyTopic(r.id)
       /\ \E env \in Envelopes :
            /\ env.raw = "ok"
            /\ r.id = NewDBKey(SentAt(env), env.topic, env.hash)
            /\ r.data = RlpEncode(env)
            /\ r.topic = env.topic
            /\ BloomColumnOf(env, r)
  /\ (last.op = "GetEnvelope" /\ last.err = "nil") =>
       \E env \in Envelopes : env.raw = "ok" /\ last.envelope = RlpEncode(env)

\* a reader got a row while another save was between Prepare and Exec
C9_Witness ==
  /\ last.op = "GetEnvelope"
  /\ last.err = "nil"
  /\ stmts # {}
  /\ \E r \in rows : r.topic # emptyTopic

\* what the backend still holds of a resource: db.Close lets go of everything
Held(resource) == resource /\ ~closed

\* C11 as stated: a BuildIterator call with limit <= 0 fails with
\* InvalidQuery, prepares and executes no statement, and returns no iterator.
C11_LimitValidated ==
  (it.op = "BuildIterator" /\ it.query.limit <= 0) =>
    /\ it.err = "InvalidQuery"
    /\ ~it.stmt
    /\ ~it.iterator

\* C13 as stated: once BuildIterator has returned an error, or Release has
\* been called on its iterator once or more, the backend holds neither the
\* prepared statement nor the row cursor of that call.
C13_ResourcesReleased ==
  (it.op = "BuildIterator" /\ (it.err # "nil" \/ it.releases >= 1)) =>
    /\ ~Held(it.stmt)
    /\ ~Held(it.cursor)

\* C12: with a non-empty topic set only rows whose topic is in the set are
\* returned and the result is the same whatever the query's bloom is; with an
\* empty topic set every returned row's bloom is contained in the query's
\* bloom; in both cases every returned key is at least start and, with a
\* cursor, below the cursor, without one, at most end.
C12_FilterSelection ==
  it.op = "BuildIterator" =>
    /\ it.query.topics # {} =>
         /\ \A i \in 1 .. Len(it.out) : DecodeRlp(it.out[i].data).topic \in it.query.topics
         /\ \A b \in QueryBlooms :
              BuildIterator(rows, [it.query EXCEPT !.bloom = b]) = it.out
    /\ it.query.topics = {} =>
         \A i \in 1 .. Len(it.out) :
           Contains(Bloom(DecodeRlp(it.out[i].data)), it.query.bloom)
    /\ \A i \in 1 .. Len(it.out) :
         /\ BytesCompare(it.query.start, it.out[i].id) <= 0
         /\ IF Len(it.query.cursor) > 0
              THEN BytesCompare(it.out[i].id, it.query.cursor) < 0
              ELSE BytesCompare(it.out[i].id, it.query.end) <= 0

\* a topic query that returned a row and left out a row of its range whose
\* topic is not in the set
C12_Witness ==
  /\ it.op = "BuildIterator"
  /\ it.query.topics # {}
  /\ Len(it.out) >= 1
  /\ \E r \in rows :
       /\ RangePredicate(it.query, r.id)
       /\ r.topic \notin it.query.topics

\* C14: on an open backend GetEnvelope of a key that is not stored returns
\* the no-rows error and no payload, and changes neither the rows, nor the
\* counters, nor the statements in flight.
C14_NotFound ==
  [][\A key \in {EnvKey(e) : e \in Envelopes} :
       (GetEnvelope(key) /\ ~closed /\ key \notin Keys(rows)) =>
         /\ last'.op = "GetEnvelope"
         /\ last'.err = "ErrNoRows"
         /\ "envelope" \notin DOMAIN last'
         /\ rows' = rows
         /\ stmts' = stmts
         /\ archivedEnvelopesCounter' = archivedEnvelopesCounter
         /\ archivedErrorsCounter' = archivedErrorsCounter]_vars

\* a lookup has missed on a store whose only saved row was pruned
C14_Witness ==
  /\ last.op = "GetEnvelope"
  /\ last.err = "ErrNoRows"
  /\ archivedEnvelopesCounter >= 1
  /\ rows = {}
  /\ ~closed

\* C15: once the backend is closed, no step changes the rows or the counter
\* of successful saves, and every SaveEnvelope, GetEnvelope, Prune and
\* BuildIterator call that starts returns an error; the iterator call returns
\* no rows.
C15_ClosedFails ==
  [][closed =>
       /\ rows' = rows
       /\ archivedEnvelopesCounter' = archivedEnvelopesCounter
       /\ \A env \in LiveEnvelopes :
            SaveEnvelopePrepare(env) =>
              (last'.op = "SaveEnvelope" /\ last'.err = "PrepareError" /\ stmts' = stmts)
       /\ \A key \in LiveKeys :
            GetEnvelope(key) =>
              (last'.err = "PrepareError" /\ "envelope" \notin DOMAIN last')
       /\ \A t \in 0 .. MaxPrune :
            Prune(t) => (last'.err = "PrepareError" /\ last'.n = 0)
       /\ it' # it =>
            (it'.op = "BuildIterator" /\ it'.err = "PrepareError" /\ it'.out = <<>>
             /\ pg'.state = "failed")]_vars

\* on a closed backend that holds rows, a Prune and a BuildIterator have failed
C15_Witness ==
  /\ closed
  /\ rows # {}
  /\ last.op = "Prune"
  /\ last.err = "PrepareError"
  /\ it.op = "BuildIterator"
  /\ it.err = "PrepareError"

\* C16: in every step, a row whose key stays stored keeps its payload, topic
\* and bloom; a step that takes keys out of the store is a Prune, and every
\* key a Prune(t) takes out was sent no later than t; and no step in which a
\* SaveEnvelope or a GetEnvelope returns, a statement is prepared or executed,
\* or BuildIterator runs takes a key out.
C16_ImmutableRows ==
  [][/\ \A r \in rows : r.id \in Keys(rows') => r \in rows'
     /\ Keys(rows) \ Keys(rows') # {} => \E t \in 0 .. MaxPrune : Prune(t)
     /\ \A t \in 0 .. MaxPrune :
          Prune(t) => \A key \in Keys(rows) \ Keys(rows') : KeyTime(key) <= t
     /\ (last'.op \in {"SaveEnvelope", "GetEnvelope"} /\ last' # last) =>
          Keys(rows) \subseteq Keys(rows')
     /\ stmts' # stmts => Keys(rows) \subseteq Keys(rows')
     /\ it' # it => rows' = rows]_vars

\* a second save of a stored key has returned, a row was pruned before it, and
\* an iterator has read the store
C16_Witness ==
  /\ last.op = "SaveEnvelope"
  /\ last.err = "nil"
  /\ last.affected = 0
  /\ archivedEnvelopesCounter > Cardinality(rows) + 1
  /\ it.op = "BuildIterator"
  /\ Len(it.out) >= 1

\* C18: in a chain of pages, each continuing from the last key of the page
\* before, with saves and prunes between the pages, every key of a later page
\* is strictly smaller than every key of every earlier page, so no key is in
\* two pages.
C18_NoDuplicatesUnderWrites ==
  pg.state \in {"open", "done", "failed"} =>
    \A i, j \in 1 .. Len(pg.pages) :
      i < j =>
        \A a \in 1 .. Len(pg.pages[i]) : \A b \in 1 .. Len(pg.pages[j]) :
          BytesCompare(pg.pages[j][b], pg.pages[i][a]) < 0

\* a second page has rows although a key of the first page was pruned: a
\* prune and then a save came between the two pages
C18_Witness ==
  /\ pg.state \in {"open", "done"}
  /\ Len(pg.pages) >= 2
  /\ Len(pg.pages[2]) >= 1
  /\ \E a \in 1 .. Len(pg.pages[1]) : pg.pages[1][a] \notin Keys(rows)

\* C17 as stated: every key BuildIterator returns is at least query.start and
\* at most query.end, for every cursor.
C17_AnyCursorInRange ==
  it.op = "BuildIterator" =>
    \A i \in 1 .. Len(it.out) :
      /\ BytesCompare(it.query.start, it.out[i].id) <= 0
      /\ BytesCompare(it.out[i].id, it.query.end) <= 0

\* C17 amended: every returned key is at least query.start; without a cursor
\* it is at most query.end; with a cursor it is below the cursor, and hence at
\* most query.end when the cursor is.
C17_InRangeOrBelowCursor ==
  it.op = "BuildIterator" =>
    \A i \in 1 .. Len(it.out) :
      /\ BytesCompare(it.query.start, it.out[i].id) <= 0
      /\ Len(it.query.cursor) = 0 => BytesCompare(it.out[i].id, it.query.end) <= 0
      /\ Len(it.query.cursor) > 0 =>
           /\ BytesCompare(it.out[i].id, it.query.cursor) < 0
           /\ BytesCompare(it.query.cursor, it.query.end) <= 0 =>
                BytesCompare(it.out[i].id, it.query.end) <= 0

\* a query whose cursor is above query.end has returned a key above query.end
C17_Witness ==
  /\ it.op = "BuildIterator"
  /\ Len(it.query.cursor) > 0
  /\ BytesCompare(it.query.cursor, it.query.end) > 0
  /\ \E i \in 1 .. Len(it.out) : BytesCompare(it.out[i].id, it.query.end) > 0

\* C19 as stated: every SaveEnvelope call that returns has added one to
\* exactly one counter: to the archived counter if and only if it returned no
\* error, to the errors counter if and only if it returned an error.
C19_CounterAccounting ==
  [][\A env \in Envelopes :
       ((SaveEnvelopePrepare(env) /\ stmts' = stmts) \/ SaveEnvelopeExec(env)) =>
         /\ archivedEnvelopesCounter' + archivedErrorsCounter'
              = archivedEnvelopesCounter + archivedErrorsCounter + 1
         /\ last'.err = "nil" <=> archivedEnvelopesCounter' = archivedEnvelopesCounter + 1
         /\ last'.err # "nil" <=> archivedErrorsCounter' = archivedErrorsCounter + 1]_vars
====
